---- MODULE Spec2Model ----
(***************************************************************************)
(* Model of src/main.py: four pytest checks of a web server's redirect and *)
(* HSTS posture, each run with its own http_session fixture.               *)
(*                                                                         *)
(* A Python str is modelled as a sequence of one-character strings, so     *)
(* that lower(), the `in` substring test, str() of an int and urlparse()   *)
(* are computed on the characters.  Python's None is the value None.       *)
(*                                                                         *)
(* Init draws the input: either one selected test against a server that    *)
(* may answer each request with anything, or MaxRuns runs of all four      *)
(* tests, each run in any order, against a server that answers the same    *)
(* request with the same response.                                         *)
(***************************************************************************)
EXTENDS Integers, Sequences, FiniteSets, TLC

None == <<"<None>">>

\* ------------------------------------------------------------------ str
UpperChars == <<"A","B","C","D","E","F","G","H","I","J","K","L","M",
                "N","O","P","Q","R","S","T","U","V","W","X","Y","Z">>
LowerChars == <<"a","b","c","d","e","f","g","h","i","j","k","l","m",
                "n","o","p","q","r","s","t","u","v","w","x","y","z">>
DigitChars == <<"0","1","2","3","4","5","6","7","8","9">>

Range(s) == {s[i] : i \in DOMAIN s}

\* str.lower() on one character
LowerChar(c) ==
    IF \E i \in DOMAIN UpperChars : UpperChars[i] = c
    THEN LowerChars[CHOOSE i \in DOMAIN UpperChars : UpperChars[i] = c]
    ELSE c

\* str.lower()
Lower(s) == [i \in DOMAIN s |-> LowerChar(s[i])]

\* s[a:b] for 0 <= a, 0-based, end exclusive and clamped to len(s), as
\* Python slices
Slice(s, a, b) ==
    LET e == IF b > Len(s) THEN Len(s) ELSE b
    IN  IF e <= a THEN <<>> ELSE SubSeq(s, a + 1, e)

\* s[a:]
From(s, a) == Slice(s, a, Len(s))

\* s.find(c, start) for a one-character c: 0-based index, -1 when absent
Find(s, c, start) ==
    IF \E i \in (start + 1)..Len(s) : s[i] = c
    THEN (CHOOSE i \in (start + 1)..Len(s) :
              /\ s[i] = c
              /\ \A j \in (start + 1)..(i - 1) : s[j] # c) - 1
    ELSE -1

\* s.rfind(c) for a one-character c
RFind(s, c) ==
    IF \E i \in DOMAIN s : s[i] = c
    THEN (CHOOSE i \in DOMAIN s :
              /\ s[i] = c
              /\ \A j \in (i + 1)..Len(s) : s[j] # c) - 1
    ELSE -1

\* sub in s
Contains(s, sub) ==
    \E i \in 0..(Len(s) - Len(sub)) : Slice(s, i, i + Len(sub)) = sub

\* str(n) for an int n >= 0
RECURSIVE Str(_)
Str(n) == IF n < 10 THEN <<DigitChars[n + 1]>>
          ELSE Str(n \div 10) \o <<DigitChars[(n % 10) + 1]>>

\* ------------------------------------------------------------ urlparse
IsAlpha(c) == c \in Range(UpperChars) \cup Range(LowerChars)

\* urllib.parse.scheme_chars
SchemeChars == Range(UpperChars) \cup Range(LowerChars) \cup Range(DigitChars)
               \cup {"+", "-", "."}

\* characters lstrip()ed from the url: C0 controls and space (only space is
\* in the alphabet of the model)
IsC0OrSpace(c) == c = " "

RECURSIVE LStrip(_)
LStrip(s) == IF s # <<>> /\ IsC0OrSpace(s[1]) THEN LStrip(Tail(s)) ELSE s

\* _splitnetloc(url, 2): the netloc ends at the first of "/", "?", "#"
NetlocEnd(url) ==
    LET cands == {i \in 2..(Len(url) - 1) : url[i + 1] \in {"/", "?", "#"}}
    IN  IF cands = {} THEN Len(url)
        ELSE CHOOSE i \in cands : \A j \in cands : i <= j

\* _splitparams(url): <<url, params>>
SplitParams(url) ==
    LET i == IF Find(url, "/", 0) >= 0
             THEN Find(url, ";", RFind(url, "/"))
             ELSE Find(url, ";", 0)
    IN  IF Find(url, "/", 0) >= 0 /\ i < 0 THEN <<url, <<>>>>
        ELSE <<Slice(url, 0, i), From(url, i + 1)>>

\* urlsplit: <<scheme, rest>>; the text before the first ":" is the scheme
\* when it starts with a letter and holds scheme characters only, and it is
\* lower-cased
SplitScheme(url) ==
    LET i == Find(url, ":", 0)
    IN  IF /\ i > 0
           /\ IsAlpha(url[1])
           /\ \A k \in 1..i : url[k] \in SchemeChars
        THEN <<Lower(Slice(url, 0, i)), From(url, i + 1)>>
        ELSE <<<<>>, url>>

\* urlsplit: <<netloc, rest>>; there is a netloc when the rest starts "//"
SplitNetloc(url) ==
    IF Slice(url, 0, 2) = <<"/", "/">>
    THEN <<Slice(url, 2, NetlocEnd(url)), From(url, NetlocEnd(url))>>
    ELSE <<<<>>, url>>

\* urlsplit: the fragment, then the query, are cut off the rest
CutAt(url, c) == IF Find(url, c, 0) >= 0 THEN Slice(url, 0, Find(url, c, 0))
                 ELSE url

\* urlparse: the params are cut off the path of a scheme in uses_params
\* ("", "http" and "https" are)
CutParams(scheme, url) ==
    IF /\ scheme \in {<<>>, <<"h","t","t","p">>, <<"h","t","t","p","s">>}
       /\ Find(url, ";", 0) >= 0
    THEN SplitParams(url)[1]
    ELSE url

ParseResult(scheme, netloc_rest) ==
    [scheme |-> scheme,
     netloc |-> netloc_rest[1],
     path |-> CutParams(scheme, CutAt(CutAt(netloc_rest[2], "#"), "?"))]

ParseAfterScheme(scheme_rest) ==
    ParseResult(scheme_rest[1], SplitNetloc(scheme_rest[2]))

\* urllib.parse.urlparse(location), the fields the checks read
urlparse(location) == ParseAfterScheme(SplitScheme(LStrip(location)))

\* ------------------------------------------------------- configuration
NON_WWW_DOMAIN == <<"k","o","u","i","d","r","i",".","f","r">>
WWW_DOMAIN == <<"w","w","w",".">> \o NON_WWW_DOMAIN

HTTP_WWW_URL == <<"h","t","t","p",":","/","/">> \o WWW_DOMAIN
HTTPS_NON_WWW_URL == <<"h","t","t","p","s",":","/","/">> \o NON_WWW_DOMAIN
HTTPS_WWW_URL == <<"h","t","t","p","s",":","/","/">> \o WWW_DOMAIN

\* ------------------------------------------------- requests' responses
LOCATION == <<"L","o","c","a","t","i","o","n">>
STRICT_TRANSPORT_SECURITY == <<"S","t","r","i","c","t","-","T","r","a","n","s","p","o","r","t","-","S","e","c","u","r","i","t","y">>
SET_COOKIE == <<"S","e","t","-","C","o","o","k","i","e">>
MAX_AGE == <<"m","a","x","-","a","g","e">>

\* A response is [status, headers], headers a sequence of <<name, value>>; a
\* request that ends in a transport failure yields [exc], the exception
\* requests raises.
Response(status, headers) == [status |-> status, headers |-> headers]
Exception(e) == [exc |-> e]
IsException(r) == "exc" \in DOMAIN r

\* response.headers.get(key): headers is a CaseInsensitiveDict
HeadersGet(headers, key) ==
    LET hits == {i \in DOMAIN headers : Lower(headers[i][1]) = Lower(key)}
    IN  IF hits = {} THEN None
        ELSE headers[CHOOSE i \in hits : \A j \in hits : j <= i][2]

\* the host a URL of the configuration names
Host(url) == urlparse(url).netloc

\* ------------------------------------------------------- server inputs
Statuses == {200, 301, 302, 307, 308, 404}

SchemeParts == {<<"h","t","t","p","s",":">>, <<"H","T","T","P","S",":">>, <<"h","t","t","p",":">>, <<>>}
AuthorityParts == {<<"/","/">> \o WWW_DOMAIN, <<"/","/">> \o NON_WWW_DOMAIN,
                   <<"/","/">> \o WWW_DOMAIN \o <<":","4","4","3">>,
                   <<"/","/","W","W","W",".">> \o NON_WWW_DOMAIN, <<>>}
PathParts == {<<>>, <<"/">>, <<"/","x">>, <<"/",";","p">>}
TailParts == {<<>>, <<"?","q">>}

Locations == {s \o a \o p \o t : s \in SchemeParts, a \in AuthorityParts,
                                 p \in PathParts, t \in TailParts}
GoodLocation == <<"h","t","t","p","s",":","/","/">> \o WWW_DOMAIN \o <<"/">>

HstsValues == {<<"m","a","x","-","a","g","e","=","0">>, <<"M","a","x","-","A","g","e","=","0">>, <<"p","r","e","l","o","a","d">>}

LocationHeaders == {<<>>} \cup {<<<<LOCATION, l>>>> : l \in Locations}
HstsHeaders == {<<>>} \cup {<<<<STRICT_TRANSPORT_SECURITY, v>>>> : v \in HstsValues}

\* header names as an HTTP/2 server sends them
LowerCaseNamed ==
    {Response(301, <<<<Lower(LOCATION), GoodLocation>>>>),
     Response(200, <<<<Lower(STRICT_TRANSPORT_SECURITY), <<"m","a","x","-","a","g","e","=","0">>>>>>),
     Response(301, <<<<Lower(LOCATION), GoodLocation>>,
                     <<Lower(STRICT_TRANSPORT_SECURITY), <<"m","a","x","-","a","g","e","=","0">>>>>>)}

\* what a server may answer to a GET that is not followed
FirstHopResponses ==
    {Response(s, l) : s \in Statuses, l \in LocationHeaders}
    \cup {Response(s, l \o h) : s \in Statuses,
                                l \in {<<>>, <<<<LOCATION, GoodLocation>>>>},
                                h \in HstsHeaders}
    \cup LowerCaseNamed

\* what a GET with allow_redirects=True may return: requests follows every
\* redirect that carries a Location, so the final response is not one
FinalResponses ==
    {Response(s, h) : s \in Statuses, h \in HstsHeaders}
    \cup {Response(200, <<<<LOCATION, GoodLocation>>>> \o h) : h \in HstsHeaders}
    \cup {Response(200, <<<<Lower(STRICT_TRANSPORT_SECURITY), <<"m","a","x","-","a","g","e","=","0">>>>>>)}

Exceptions == {Exception("ConnectionError"), Exception("SSLError"),
               Exception("Timeout")}

\* A server that answers the same request with the same response: one
\* response per URL, and either no cookie at all (cookie_reply = NoCookie) or
\* a Set-Cookie on every response and cookie_reply to a request that sends
\* the cookie back.
NoCookie == [none |-> TRUE]
HttpWwwReplies ==
    {Response(301, <<<<LOCATION, GoodLocation>>>>),
     Response(302, <<<<LOCATION, GoodLocation>>>>),
     Exception("ConnectionError")}
HttpsNonWwwReplies ==
    {Response(301, <<<<LOCATION, GoodLocation>>>>),
     Response(301, <<<<LOCATION, <<"h","t","t","p","s",":","/","/">> \o NON_WWW_DOMAIN \o <<"/">>>>>>)}
HttpsWwwReplies ==
    {Response(200, <<<<STRICT_TRANSPORT_SECURITY, <<"m","a","x","-","a","g","e","=","0">>>>>>),
     Exception("Timeout")}
CookieReplies == {NoCookie, Response(200, <<>>)}

Arbitrary == [mode |-> "arbitrary"]
FixedServers ==
    {[mode |-> "fixed",
      reply |-> (HTTP_WWW_URL :> a) @@ (HTTPS_NON_WWW_URL :> b)
                @@ (HTTPS_WWW_URL :> c),
      cookie_reply |-> k] :
        a \in HttpWwwReplies, b \in HttpsNonWwwReplies,
        c \in HttpsWwwReplies, k \in CookieReplies}

\* ------------------------------------------------------------- pytest
Tests == {"test_liveness", "test_http_to_https_redirect",
          "test_non_www_to_www_redirect", "test_hsts_header"}

\* the orders in which all four tests can be selected
Orders == {o \in [1..4 -> Tests] : \A i, j \in 1..4 : o[i] = o[j] => i = j}

\* number of times the four checks are run in succession
MaxRuns == 2

NoSession == [none |-> TRUE]
NoResponse == [none |-> TRUE]
NotParsed == [none |-> TRUE]
NotRun == [kind |-> "notrun"]
Passed == [kind |-> "passed"]

VARIABLES
    server,           \* the behaviour of the server under test
    invocations,      \* how many runs the harness makes
    run,              \* the current run, 1..invocations
    order,            \* the tests selected for the current run, in order
    pos,              \* index in order of the current test
    pc,               \* position in the current test
    http_session,     \* the session the fixture handed to the current test
    constructed,      \* sessions constructed during the current run
    response,         \* response / http_response of the current test
    https_response,   \* https_response of the current test
    location,         \* location of the current test
    parsed_location,  \* parsed_location of the current test
    sent,             \* the requests the current test has issued
    outcome,          \* outcome[r][t]: how test t ended in run r
    same_order        \* same_order[r]: run r used the order of run r - 1

vars == <<server, invocations, run, order, pos, pc, http_session,
          constructed, response, https_response, location,
          parsed_location, sent, outcome, same_order>>

locals == <<response, https_response, location, parsed_location>>
harness == <<server, invocations, run, order, pos, same_order>>

Cur == order[pos]

InitCommon ==
    /\ run = 1
    /\ pos = 1
    /\ pc = "setup"
    /\ http_session = NoSession
    /\ constructed = 0
    /\ response = NoResponse
    /\ https_response = NoResponse
    /\ location = None
    /\ parsed_location = NotParsed
    /\ sent = <<>>
    /\ outcome = [r \in 1..MaxRuns |-> [t \in Tests |-> NotRun]]
    /\ same_order = [r \in 1..MaxRuns |-> FALSE]

\* one selected test against a server that may answer anything
InitOneTest ==
    /\ server = Arbitrary
    /\ invocations = 1
    /\ order \in {<<t>> : t \in Tests}
    /\ InitCommon

\* all four tests, in any order, MaxRuns times against a server that answers
\* the same request with the same response
InitAllTests ==
    /\ server \in FixedServers
    /\ invocations = MaxRuns
    /\ order \in Orders
    /\ InitCommon

Init == InitOneTest \/ InitAllTests

\* ------------------------------------------------------------ fixture
\* a session that starts with the cookies of the session before it
SessionWithOldCookies ==
    [verify |-> TRUE,
     cookies |-> IF http_session = NoSession THEN {} ELSE http_session.cookies]

\* requests.Session() with session.verify = True: an empty cookie jar
NewSession == [verify |-> TRUE, cookies |-> {}]

http_to_https_steps ==
    <<"get", "assert_status", "assert_location", "urlparse",
      "assert_scheme", "assert_netloc", "assert_path">>
non_www_to_www_steps ==
    <<"get", "assert_status", "assert_location", "urlparse",
      "assert_scheme", "assert_netloc", "assert_path">>
\* the HSTS check with both requests issued before the first assertion
hsts_steps_requests_first ==
    <<"get_http", "get_https", "assert_hsts_http", "assert_https_status",
      "assert_hsts_https", "assert_max_age">>

liveness_steps == <<"get_https", "assert_https_status">>
hsts_steps ==
    <<"get_http", "assert_hsts_http", "get_https", "assert_https_status",
      "assert_hsts_https", "assert_max_age">>

Steps(t) ==
    CASE t = "test_liveness" -> liveness_steps
      [] t = "test_http_to_https_redirect" -> http_to_https_steps
      [] t = "test_non_www_to_www_redirect" -> non_www_to_www_steps
      [] t = "test_hsts_header" -> hsts_steps

\* the statement after step s of test t, "return" after the last one
After(t, s) ==
    LET i == CHOOSE k \in DOMAIN Steps(t) : Steps(t)[k] = s
    IN  IF i = Len(Steps(t)) THEN "return" ELSE Steps(t)[i + 1]

\* a fixture of module scope: the session of the first test is handed to the
\* tests after it
http_session_module_scope ==
    /\ pc = "setup"
    /\ http_session' = IF http_session = NoSession THEN NewSession
                       ELSE http_session
    /\ constructed' = IF http_session = NoSession THEN constructed + 1
                      ELSE constructed
    /\ pc' = Steps(Cur)[1]
    /\ UNCHANGED <<harness, locals, sent, outcome>>

\* @pytest.fixture (function scope): every test is handed a session of its
\* own, constructed when the test is set up
http_session_fixture ==
    /\ pc = "setup"
    /\ http_session' = NewSession
    /\ constructed' = constructed + 1
    /\ pc' = Steps(Cur)[1]
    /\ UNCHANGED <<harness, locals, sent, outcome>>

\* ------------------------------------------------------ ends of a test
Finish(o) ==
    /\ outcome' = [outcome EXCEPT ![run][Cur] = o]
    /\ pc' = "done"

Goto(s) == IF s = "return" THEN Finish(Passed)
           ELSE pc' = s /\ UNCHANGED outcome

\* a failing assert raises AssertionError(msg) out of the test
AssertionError(assertion, msg) ==
    [kind |-> "AssertionError", assertion |-> assertion, msg |-> msg]

\* the exception caught and the test let pass
Swallow(reply) == Finish(Passed)

\* no try/except surrounds http_session.get: the exception leaves the test
Propagate(reply) == Finish([kind |-> reply.exc])

\* assert cond, msg
AssertStmt(cond, msg) ==
    IF cond THEN Goto(After(Cur, pc))
    ELSE Finish(AssertionError(pc, msg))

\* ----------------------------------------------------------- requests
\* the replies the server can give to this request of the session; a request
\* carries the cookies the session holds for the host
Replies(url, allow_redirects) ==
    IF server.mode = "arbitrary"
    THEN (IF allow_redirects THEN FinalResponses ELSE FirstHopResponses)
         \cup Exceptions
    ELSE LET cookie_sent == Host(url) \in http_session.cookies
             base == IF cookie_sent /\ server.cookie_reply # NoCookie
                     THEN server.cookie_reply ELSE server.reply[url]
         IN  IF IsException(base) \/ server.cookie_reply = NoCookie
             THEN {base}
             ELSE {[base EXCEPT !.headers = @ \o <<<<SET_COOKIE, <<"s","i","d","=","1">>>>>>]}

\* http_session.get(url, allow_redirects=...) answered by reply: the request
\* is issued and the session keeps the cookie of the response
session_get(url, allow_redirects, reply) ==
    /\ sent' = Append(sent, [url |-> url, allow_redirects |-> allow_redirects,
                             verify |-> http_session.verify,
                             raised |-> IsException(reply)])
    /\ http_session' =
          IF ~IsException(reply) /\ HeadersGet(reply.headers, SET_COOKIE) # None
          THEN [http_session EXCEPT !.cookies = @ \cup {Host(url)}]
          ELSE http_session
\* -------------------------------------------------- failure messages
\* An f-string is the sequence of its parts: Lit(...) for the text between
\* the braces, the formatted value for each brace.  A value the text itself
\* spells out (the expected 200, 301, HTTPS, '/', 'max-age', absent, and the
\* observed "missing") is a part of its own.
Lit(text) == <<text>>

liveness_status_msg(actual) ==
    <<Lit("Unexpected response code: "), Str(actual), Lit(" (expected "),
      <<"2","0","0">>, Lit(")")>>
redirect_status_msg(actual) ==
    <<Lit("Unexpected code: "), Str(actual), Lit(" (strictly expected "),
      <<"3","0","1">>, Lit(" for a permanent redirect)")>>
location_missing_msg == <<Lit("Location header "), <<"m","i","s","s","i","n","g">>>>
scheme_msg(actual) ==
    <<Lit("Redirect to "), actual, Lit(", not "), <<"H","T","T","P","S">>>>
netloc_msg(t, actual) ==
    IF t = "test_http_to_https_redirect"
    THEN <<Lit("Domain changed: "), actual, Lit(" (expected "), WWW_DOMAIN,
           Lit(" to preserve 'www')")>>
    ELSE <<Lit("Domain unchanged or incorrect: "), actual, Lit(" (expected "),
           WWW_DOMAIN, Lit(" with 'www' added)")>>
\* the message without the observed path
path_msg_without_actual(actual) ==
    <<Lit("Path changed (expected '"), <<"/">>, Lit("' for root)")>>

path_msg(actual) ==
    <<Lit("Path changed: "), actual, Lit(" (expected '"), <<"/">>,
      Lit("' for root)")>>
hsts_http_msg(actual) ==
    <<Lit("HSTS present on HTTP: "), actual, Lit(" (should be "), <<"a","b","s","e","n","t">>,
      Lit(" to avoid leaks)")>>
hsts_status_msg(actual) ==
    <<Lit("Unexpected HTTPS status: "), Str(actual), Lit(" (expected "),
      <<"2","0","0">>, Lit(")")>>
hsts_missing_msg == <<Lit("HSTS header "), <<"m","i","s","s","i","n","g">>, Lit(" on HTTPS")>>
max_age_msg(actual) ==
    <<Lit("Invalid HSTS value on HTTPS: "), actual, Lit(" (should include '"),
      MAX_AGE, Lit("')")>>

\* ------------------------------------------------- asserted conditions
\* any redirect status accepted, any status below 400 accepted, the bare
\* domain accepted inside the netloc, max-age matched case-sensitively
status_is_redirect(r) == r.status \in {301, 302, 307, 308}
status_is_not_error(r) == r.status < 400
netloc_has_domain(p) == Contains(p.netloc, NON_WWW_DOMAIN)
has_max_age_same_case(hsts) == Contains(hsts, MAX_AGE)

status_is_200(r) == r.status = 200
status_is_301(r) == r.status = 301
scheme_is_https(p) == p.scheme = <<"h","t","t","p","s">>
netloc_is_www(p) == p.netloc = WWW_DOMAIN
path_is_root(p) == p.path = <<"/">>
has_max_age(hsts) == Contains(Lower(hsts), MAX_AGE)

\* ------------------------------------------------------ test_liveness
liveness_get ==
    /\ Cur = "test_liveness" /\ pc = "get_https"
    /\ \E reply \in Replies(HTTPS_WWW_URL, TRUE) :
          /\ session_get(HTTPS_WWW_URL, TRUE, reply)
          /\ IF IsException(reply)
             THEN Propagate(reply) /\ UNCHANGED https_response
             ELSE https_response' = reply /\ Goto(After(Cur, pc))
    /\ UNCHANGED <<harness, constructed, response, location, parsed_location>>

liveness_assert_status ==
    /\ Cur = "test_liveness" /\ pc = "assert_https_status"
    /\ AssertStmt(status_is_200(https_response),
                  liveness_status_msg(https_response.status))
    /\ UNCHANGED <<harness, http_session, constructed, locals, sent>>

\* ---------- test_http_to_https_redirect, test_non_www_to_www_redirect
RedirectTests == {"test_http_to_https_redirect", "test_non_www_to_www_redirect"}

RedirectUrl(t) == IF t = "test_http_to_https_redirect"
                  THEN HTTP_WWW_URL ELSE HTTPS_NON_WWW_URL

redirect_get ==
    /\ Cur \in RedirectTests /\ pc = "get"
    /\ \E reply \in Replies(RedirectUrl(Cur), FALSE) :
          /\ session_get(RedirectUrl(Cur), FALSE, reply)
          /\ IF IsException(reply)
             THEN Propagate(reply) /\ UNCHANGED response
             ELSE response' = reply /\ Goto(After(Cur, pc))
    /\ UNCHANGED <<harness, constructed, https_response, location,
                   parsed_location>>

redirect_assert_status ==
    /\ Cur \in RedirectTests /\ pc = "assert_status"
    /\ AssertStmt(status_is_301(response), redirect_status_msg(response.status))
    /\ UNCHANGED <<harness, http_session, constructed, locals, sent>>

redirect_assert_location ==
    /\ Cur \in RedirectTests /\ pc = "assert_location"
    /\ location' = HeadersGet(response.headers, LOCATION)
    /\ AssertStmt(location' # None, location_missing_msg)
    /\ UNCHANGED <<harness, http_session, constructed, response,
                   https_response, parsed_location, sent>>

redirect_urlparse ==
    /\ Cur \in RedirectTests /\ pc = "urlparse"
    /\ parsed_location' = urlparse(location)
    /\ Goto(After(Cur, pc))
    /\ UNCHANGED <<harness, http_session, constructed, response,
                   https_response, location, sent>>

redirect_assert_scheme ==
    /\ Cur \in RedirectTests /\ pc = "assert_scheme"
    /\ AssertStmt(scheme_is_https(parsed_location),
                  scheme_msg(parsed_location.scheme))
    /\ UNCHANGED <<harness, http_session, constructed, locals, sent>>

redirect_assert_netloc ==
    /\ Cur \in RedirectTests /\ pc = "assert_netloc"
    /\ AssertStmt(netloc_is_www(parsed_location),
                  netloc_msg(Cur, parsed_location.netloc))
    /\ UNCHANGED <<harness, http_session, constructed, locals, sent>>

redirect_assert_path ==
    /\ Cur \in RedirectTests /\ pc = "assert_path"
    /\ AssertStmt(path_is_root(parsed_location), path_msg(parsed_location.path))
    /\ UNCHANGED <<harness, http_session, constructed, locals, sent>>

\* --------------------------------------------------- test_hsts_header
hsts_get_http ==
    /\ Cur = "test_hsts_header" /\ pc = "get_http"
    /\ \E reply \in Replies(HTTP_WWW_URL, FALSE) :
          /\ session_get(HTTP_WWW_URL, FALSE, reply)
          /\ IF IsException(reply)
             THEN Propagate(reply) /\ UNCHANGED response
             ELSE response' = reply /\ Goto(After(Cur, pc))
    /\ UNCHANGED <<harness, constructed, https_response, location,
                   parsed_location>>

hsts_assert_hsts_http ==
    /\ Cur = "test_hsts_header" /\ pc = "assert_hsts_http"
    /\ LET hsts_http == HeadersGet(response.headers, STRICT_TRANSPORT_SECURITY)
       IN  AssertStmt(hsts_http = None, hsts_http_msg(hsts_http))
    /\ UNCHANGED <<harness, http_session, constructed, locals, sent>>

hsts_get_https ==
    /\ Cur = "test_hsts_header" /\ pc = "get_https"
    /\ \E reply \in Replies(HTTPS_WWW_URL, TRUE) :
          /\ session_get(HTTPS_WWW_URL, TRUE, reply)
          /\ IF IsException(reply)
             THEN Propagate(reply) /\ UNCHANGED https_response
             ELSE https_response' = reply /\ Goto(After(Cur, pc))
    /\ UNCHANGED <<harness, constructed, response, location, parsed_location>>

hsts_assert_status ==
    /\ Cur = "test_hsts_header" /\ pc = "assert_https_status"
    /\ AssertStmt(status_is_200(https_response),
                  hsts_status_msg(https_response.status))
    /\ UNCHANGED <<harness, http_session, constructed, locals, sent>>

hsts_assert_hsts_https ==
    /\ Cur = "test_hsts_header" /\ pc = "assert_hsts_https"
    /\ AssertStmt(HeadersGet(https_response.headers, STRICT_TRANSPORT_SECURITY)
                      # None,
                  hsts_missing_msg)
    /\ UNCHANGED <<harness, http_session, constructed, locals, sent>>

hsts_assert_max_age ==
    /\ Cur = "test_hsts_header" /\ pc = "assert_max_age"
    /\ LET hsts_https ==
               HeadersGet(https_response.headers, STRICT_TRANSPORT_SECURITY)
       IN  AssertStmt(has_max_age(hsts_https), max_age_msg(hsts_https))
    /\ UNCHANGED <<harness, http_session, constructed, locals, sent>>

\* ------------------------------------------------------------ harness
\* pytest goes on to the next selected test, whatever the outcome
NextCheck ==
    /\ pc = "done" /\ pos < Len(order)
    /\ pos' = pos + 1
    /\ pc' = "setup"
    /\ response' = NoResponse
    /\ https_response' = NoResponse
    /\ location' = None
    /\ parsed_location' = NotParsed
    /\ sent' = <<>>
    /\ UNCHANGED <<server, invocations, run, order, same_order, http_session,
                   constructed, outcome>>

\* the four checks are run again, in any order; the session of the last test
\* is still around, and nothing reads it: the fixture constructs a new one
StartRun ==
    /\ pc = "done" /\ pos = Len(order) /\ run < invocations
    /\ run' = run + 1
    /\ order' \in Orders
    /\ same_order' = [same_order EXCEPT ![run + 1] = (order' = order)]
    /\ pos' = 1
    /\ pc' = "setup"
    /\ constructed' = 0
    /\ response' = NoResponse
    /\ https_response' = NoResponse
    /\ location' = None
    /\ parsed_location' = NotParsed
    /\ sent' = <<>>
    /\ UNCHANGED <<server, invocations, http_session, outcome>>

Next ==
    \/ http_session_fixture
    \/ liveness_get
    \/ liveness_assert_status
    \/ redirect_get
    \/ redirect_assert_status
    \/ redirect_assert_location
    \/ redirect_urlparse
    \/ redirect_assert_scheme
    \/ redirect_assert_netloc
    \/ redirect_assert_path
    \/ hsts_get_http
    \/ hsts_assert_hsts_http
    \/ hsts_get_https
    \/ hsts_assert_status
    \/ hsts_assert_hsts_https
    \/ hsts_assert_max_age
    \/ NextCheck
    \/ StartRun

Spec == Init /\ [][Next]_vars

\* =====================================================================
\* Properties
\* =====================================================================
Out == outcome[run][Cur]
Finished(t) == pc = "done" /\ Cur = t
Failed == Out.kind = "AssertionError"
ExceptionNames == {e.exc : e \in Exceptions}
States(msg, value) == \E i \in DOMAIN msg : msg[i] = value

\* what the claims require of a redirect response, stated on the response
RedirectsToWww(r) ==
    /\ r.status = 301
    /\ HeadersGet(r.headers, LOCATION) # None
    /\ urlparse(HeadersGet(r.headers, LOCATION)).scheme = <<"h","t","t","p","s">>
    /\ urlparse(HeadersGet(r.headers, LOCATION)).netloc = <<"w","w","w",".","k","o","u","i","d","r","i",".","f","r">>
    /\ urlparse(HeadersGet(r.headers, LOCATION)).path = <<"/">>

FirstHopRequest(url) ==
    [url |-> url, allow_redirects |-> FALSE, verify |-> TRUE, raised |-> FALSE]

\* C1: whatever the response to GET http://www.<domain> (not followed), the
\* HTTP->HTTPS check passes exactly when the status is 301 and the Location
\* is present and parses to scheme https, netloc www.<domain>, path "/";
\* a 302, 307 or 308 fails it whatever the Location.
C1_HttpToHttpsPassesIff ==
    (Finished("test_http_to_https_redirect") /\ response # NoResponse) =>
        /\ sent = <<FirstHopRequest(<<"h","t","t","p",":","/","/","w","w","w",".","k","o","u","i","d","r","i",".","f","r">>)>>
        /\ (Out = Passed) <=> RedirectsToWww(response)
        /\ Out # Passed => Failed
        /\ response.status \in {302, 307, 308} => Failed

C1_Witness ==
    /\ Finished("test_http_to_https_redirect")
    /\ response # NoResponse
    /\ response.status = 302
    /\ HeadersGet(response.headers, LOCATION) = <<"h","t","t","p","s",":","/","/","w","w","w",".","k","o","u","i","d","r","i",".","f","r","/">>
    /\ Failed

\* C2: whatever the response to GET https://<domain> (not followed), the
\* non-www->www check passes exactly when the status is 301 and the Location
\* is present and parses to scheme https, netloc www.<domain>, path "/"; a
\* Location whose netloc is the bare domain fails it.
C2_NonWwwToWwwPassesIff ==
    (Finished("test_non_www_to_www_redirect") /\ response # NoResponse) =>
        /\ sent = <<FirstHopRequest(<<"h","t","t","p","s",":","/","/","k","o","u","i","d","r","i",".","f","r">>)>>
        /\ (Out = Passed) <=> RedirectsToWww(response)
        /\ Out # Passed => Failed
        /\ (/\ HeadersGet(response.headers, LOCATION) # None
            /\ urlparse(HeadersGet(response.headers, LOCATION)).netloc
                   = <<"k","o","u","i","d","r","i",".","f","r">>)
           => Failed

C2_Witness ==
    /\ Finished("test_non_www_to_www_redirect")
    /\ response # NoResponse
    /\ response.status = 301
    /\ HeadersGet(response.headers, LOCATION) = <<"h","t","t","p","s",":","/","/","k","o","u","i","d","r","i",".","f","r","/">>
    /\ Failed
    /\ Out.assertion = "assert_netloc"

\* what the HSTS check requires of its two responses
HstsPosture ==
    /\ response # NoResponse
    /\ HeadersGet(response.headers, STRICT_TRANSPORT_SECURITY) = None
    /\ https_response # NoResponse
    /\ https_response.status = 200
    /\ HeadersGet(https_response.headers, STRICT_TRANSPORT_SECURITY) # None
    /\ Contains(Lower(HeadersGet(https_response.headers,
                                 STRICT_TRANSPORT_SECURITY)), <<"m","a","x","-","a","g","e">>)

\* C3: the HSTS check passes exactly when the first-hop response to
\* GET http://www.<domain> carries no Strict-Transport-Security and the final
\* response to GET https://www.<domain> has status 200 and carries a
\* Strict-Transport-Security whose lower-cased value contains "max-age";
\* with any other pair of responses it fails.
C3_HstsPassesIff ==
    Finished("test_hsts_header") =>
        /\ (Out = Passed) <=> HstsPosture
        /\ (Out # Passed /\ \A i \in DOMAIN sent : ~sent[i].raised) => Failed
        /\ sent[1].url = <<"h","t","t","p",":","/","/","w","w","w",".","k","o","u","i","d","r","i",".","f","r">> /\ ~sent[1].allow_redirects
        /\ Len(sent) = 2 =>
              sent[2].url = <<"h","t","t","p","s",":","/","/","w","w","w",".","k","o","u","i","d","r","i",".","f","r">> /\ sent[2].allow_redirects

C3_Witness ==
    /\ Finished("test_hsts_header")
    /\ Out = Passed
    /\ HeadersGet(https_response.headers, STRICT_TRANSPORT_SECURITY)
           = <<"M","a","x","-","A","g","e","=","0">>

\* C4: the liveness check issues one GET to https://www.<domain> with
\* redirects followed and passes exactly when the final status is 200; any
\* other status fails it with a message that gives that status.
C4_LivenessPassesIff ==
    /\ (Cur = "test_liveness" /\ sent # <<>>) =>
           sent = <<[url |-> <<"h","t","t","p","s",":","/","/","w","w","w",".","k","o","u","i","d","r","i",".","f","r">>, allow_redirects |-> TRUE,
                     verify |-> TRUE, raised |-> sent[1].raised]>>
    /\ (Finished("test_liveness") /\ https_response # NoResponse) =>
           /\ (Out = Passed) <=> https_response.status = 200
           /\ https_response.status # 200 =>
                 Failed /\ States(Out.msg, Str(https_response.status))
    /\ Finished("test_liveness") => Len(sent) = 1

C4_Witness ==
    /\ Finished("test_liveness")
    /\ https_response # NoResponse
    /\ https_response.status = 404
    /\ Failed

\* C5: a request that ends in a transport failure is the last request of its
\* check, which ends with that exception as its outcome (not a pass, not an
\* AssertionError); no URL is requested twice by a check.
C5_TransportErrorSurfaces ==
    /\ \A i \in DOMAIN sent :
          sent[i].raised =>
              /\ i = Len(sent)
              /\ pc = "done"
              /\ Out.kind \in ExceptionNames
    /\ (pc = "done" /\ Out.kind \in ExceptionNames) =>
          sent # <<>> /\ sent[Len(sent)].raised
    /\ \A i, j \in DOMAIN sent : sent[i].url = sent[j].url => i = j

C5_Witness ==
    /\ Finished("test_hsts_header")
    /\ Len(sent) = 2
    /\ sent[2].raised
    /\ Out.kind = "Timeout"

Completed(r, t) == outcome[r][t] # NotRun

\* C6: against a server that answers the same request with the same
\* response, a check ends the same way in every run in which it has ended,
\* whatever the order of the run and however the checks before it ended.
C6_OrderInsensitive ==
    \A r1, r2 \in 1..MaxRuns : \A t \in Tests :
        (Completed(r1, t) /\ Completed(r2, t)) =>
            outcome[r1][t] = outcome[r2][t]

C6_Witness ==
    /\ run = 2 /\ ~same_order[2]
    /\ pc = "done" /\ pos = 4
    /\ order[1] = "test_hsts_header"
    /\ outcome[1]["test_hsts_header"].kind = "AssertionError"
    /\ outcome[1]["test_http_to_https_redirect"] = Passed
    /\ outcome[1]["test_liveness"].kind = "Timeout"
    /\ \A t \in Tests : Completed(2, t)

\* C7: a second run in the same order gives every check the outcome of the
\* first, and every check starts from a session no earlier check has
\* touched: verification on, no cookie.
C7_Idempotent ==
    /\ \A r \in 2..MaxRuns : \A t \in Tests :
          (same_order[r] /\ Completed(r, t)) =>
              outcome[r][t] = outcome[r - 1][t]
    /\ (pc # "setup" /\ sent = <<>> /\ pc # "done") =>
          http_session = [verify |-> TRUE, cookies |-> {}]
    /\ \A i \in DOMAIN sent : sent[i].verify

C7_Witness ==
    /\ run = 2 /\ same_order[2]
    /\ pc = "done" /\ pos = 4
    /\ http_session.cookies # {}
    /\ \E t \in Tests : outcome[2][t] = Passed
    /\ \E t \in Tests : outcome[2][t].kind = "AssertionError"

\* C8 (as claimed): one session is constructed once and serves all four
\* checks of a run.
C8_OneSessionPerRun == constructed <= 1

\* the value the failed assertion observed, as the response gives it
Observed ==
    CASE Out.assertion = "assert_status" -> Str(response.status)
      [] Out.assertion = "assert_location" -> <<"m","i","s","s","i","n","g">>
      [] Out.assertion = "assert_scheme" ->
             urlparse(HeadersGet(response.headers, LOCATION)).scheme
      [] Out.assertion = "assert_netloc" ->
             urlparse(HeadersGet(response.headers, LOCATION)).netloc
      [] Out.assertion = "assert_path" ->
             urlparse(HeadersGet(response.headers, LOCATION)).path
      [] Out.assertion = "assert_hsts_http" ->
             HeadersGet(response.headers, STRICT_TRANSPORT_SECURITY)
      [] Out.assertion = "assert_https_status" -> Str(https_response.status)
      [] Out.assertion = "assert_hsts_https" -> <<"m","i","s","s","i","n","g">>
      [] Out.assertion = "assert_max_age" ->
             HeadersGet(https_response.headers, STRICT_TRANSPORT_SECURITY)

\* the value the failed assertion expects, in the words of a message
Expected ==
    CASE Out.assertion = "assert_status" -> {<<"3","0","1">>}
      [] Out.assertion = "assert_location" -> {<<"p","r","e","s","e","n","t">>, <<"e","x","p","e","c","t","e","d">>}
      [] Out.assertion = "assert_scheme" -> {<<"h","t","t","p","s">>, <<"H","T","T","P","S">>}
      [] Out.assertion = "assert_netloc" -> {<<"w","w","w",".","k","o","u","i","d","r","i",".","f","r">>}
      [] Out.assertion = "assert_path" -> {<<"/">>}
      [] Out.assertion = "assert_hsts_http" -> {<<"a","b","s","e","n","t">>}
      [] Out.assertion = "assert_https_status" -> {<<"2","0","0">>}
      [] Out.assertion = "assert_hsts_https" -> {<<"p","r","e","s","e","n","t">>, <<"e","x","p","e","c","t","e","d">>}
      [] Out.assertion = "assert_max_age" -> {<<"m","a","x","-","a","g","e">>}

\* the text that opens the message names what was checked
NamesField == Out.msg[1] \in {
    Lit("Unexpected response code: "), Lit("Unexpected code: "),
    Lit("Location header "), Lit("Redirect to "), Lit("Domain changed: "),
    Lit("Domain unchanged or incorrect: "), Lit("Path changed: "),
    Lit("HSTS present on HTTP: "), Lit("Unexpected HTTPS status: "),
    Lit("HSTS header "), Lit("Invalid HSTS value on HTTPS: ")}

PresenceAssertions == {"assert_location", "assert_hsts_https"}

RedirectAssertions ==
    <<"assert_status", "assert_location", "assert_scheme", "assert_netloc",
      "assert_path">>
HstsAssertions ==
    <<"assert_hsts_http", "assert_https_status", "assert_hsts_https",
      "assert_max_age">>

\* the condition an assertion requires of the responses
Holds(assertion) ==
    CASE assertion = "assert_status" -> response.status = 301
      [] assertion = "assert_location" ->
             HeadersGet(response.headers, LOCATION) # None
      [] assertion = "assert_scheme" ->
             urlparse(HeadersGet(response.headers, LOCATION)).scheme
                 = <<"h","t","t","p","s">>
      [] assertion = "assert_netloc" ->
             urlparse(HeadersGet(response.headers, LOCATION)).netloc
                 = <<"w","w","w",".","k","o","u","i","d","r","i",".","f","r">>
      [] assertion = "assert_path" ->
             urlparse(HeadersGet(response.headers, LOCATION)).path = <<"/">>
      [] assertion = "assert_hsts_http" ->
             HeadersGet(response.headers, STRICT_TRANSPORT_SECURITY) = None
      [] assertion = "assert_https_status" -> https_response.status = 200
      [] assertion = "assert_hsts_https" ->
             HeadersGet(https_response.headers, STRICT_TRANSPORT_SECURITY)
                 # None
      [] assertion = "assert_max_age" ->
             Contains(Lower(HeadersGet(https_response.headers,
                                       STRICT_TRANSPORT_SECURITY)),
                      <<"m","a","x","-","a","g","e">>)

\* the failed assertion is the first of assertions whose condition does not
\* hold
FirstViolated(assertions) ==
    \E k \in DOMAIN assertions :
        /\ assertions[k] = Out.assertion
        /\ ~Holds(assertions[k])
        /\ \A j \in 1..(k - 1) : Holds(assertions[j])

\* C10: the assertion a check fails on is the first, in the order status,
\* Location present, scheme, netloc, path (redirect checks) or HSTS absent on
\* HTTP, HTTPS status, HSTS present, max-age (HSTS check), that the responses
\* violate, and the check stops there: a missing Location is never parsed,
\* and the GET to https://www.<domain> is not issued once the http response
\* carries Strict-Transport-Security.
C10_FirstViolationEndsCheck ==
    /\ (pc = "done" /\ Failed /\ Cur \in RedirectTests) =>
          /\ FirstViolated(RedirectAssertions)
          /\ Out.assertion \in {"assert_status", "assert_location"} =>
                parsed_location = NotParsed
          /\ Out.assertion = "assert_status" => location = None
    /\ (pc = "done" /\ Failed /\ Cur = "test_hsts_header") =>
          FirstViolated(HstsAssertions)
    /\ (/\ Cur = "test_hsts_header"
        /\ response # NoResponse
        /\ HeadersGet(response.headers, STRICT_TRANSPORT_SECURITY) # None) =>
          Len(sent) = 1 /\ https_response = NoResponse
    /\ pc = "done" <=> Out # NotRun

C10_Witness ==
    /\ Finished("test_hsts_header")
    /\ Failed
    /\ Out.assertion = "assert_hsts_http"
    /\ response.status = 302
    /\ HeadersGet(response.headers, LOCATION) = None
    /\ Len(sent) = 1
====
